---------------------------- MODULE Spec2Model ----------------------------
(***************************************************************************)
(* Model of mcp_proxy/server.py (MCPProxyServer): the upstream session     *)
(* lifecycle (connect_upstream, disconnect_upstream, _reconnect_upstream), *)
(* the dispatcher (_execute_with_reconnect), the two request handlers      *)
(* (list_tools, call_tool) and the summarization pipeline                  *)
(* (_summarize_output).                                                    *)
(*                                                                         *)
(* The handlers are asyncio coroutines on one event loop: code between two *)
(* suspension points runs atomically.  `running` is the task that holds    *)
(* the event loop (0 when the loop is free to resume any ready task); a    *)
(* step that ends in a suspending await sets it back to 0.                 *)
(***************************************************************************)
EXTENDS Integers, Sequences, FiniteSets, TLC

(***************************************************************************)
(* Bounds of the model.                                                    *)
(***************************************************************************)
MaxCalls == 2        \* handler invocations in one behaviour
MaxChunks == 2       \* chunks one backend stream delivers

\* the inbound requests in flight: two concurrent tasks
Tasks == {1, 2}

(***************************************************************************)
(* Text.  A string is kept run-length encoded, <<<<char, count>>, ...>>    *)
(* in normal form (no empty run, no two adjacent runs of one character),   *)
(* so that the real sizes of the source (128000 tokens, 500 characters)    *)
(* can be used.  Two strings are equal iff their normal forms are.         *)
(***************************************************************************)
\* len(s)
RECURSIVE TLen(_)
TLen(t) == IF t = <<>> THEN 0 ELSE Head(t)[2] + TLen(Tail(t))

\* a + b: the last run of a and the first of b merge when of one character
TCat(a, b) ==
    IF a = <<>> THEN b
    ELSE IF b = <<>> THEN a
    ELSE IF a[Len(a)][1] = b[1][1]
         THEN SubSeq(a, 1, Len(a) - 1)
                  \o <<<<b[1][1], a[Len(a)][2] + b[1][2]>>>> \o Tail(b)
         ELSE a \o b

\* s[:n]
RECURSIVE TTake(_, _)
TTake(t, n) ==
    IF t = <<>> \/ n <= 0 THEN <<>>
    ELSE IF Head(t)[2] <= n
         THEN <<Head(t)>> \o TTake(Tail(t), n - Head(t)[2])
         ELSE <<<<Head(t)[1], n>>>>

\* sep.join(parts)
RECURSIVE Join(_, _)
Join(sep, parts) ==
    IF parts = <<>> THEN <<>>
    ELSE IF Len(parts) = 1 THEN parts[1]
    ELSE TCat(TCat(parts[1], sep), Join(sep, Tail(parts)))

Whitespace == {" ", "\n"}

RECURSIVE LStrip(_)
LStrip(t) ==
    IF t # <<>> /\ Head(t)[1] \in Whitespace THEN LStrip(Tail(t)) ELSE t

RECURSIVE RStrip(_)
RStrip(t) ==
    IF t # <<>> /\ t[Len(t)][1] \in Whitespace
    THEN RStrip(SubSeq(t, 1, Len(t) - 1)) ELSE t

\* s.strip()
Strip(t) == RStrip(LStrip(t))

\* a string of n copies of one character
Rep(c, n) == IF n = 0 THEN <<>> ELSE <<<<c, n>>>>

\* "\n\n[... output truncated due to size ...]"
TruncationNotice ==
    << <<"\n", 2>>, <<"[", 1>>, <<".", 3>>, <<" ", 1>>,
       <<"o", 1>>, <<"u", 1>>, <<"t", 1>>, <<"p", 1>>, <<"u", 1>>, <<"t", 1>>,
       <<" ", 1>>,
       <<"t", 1>>, <<"r", 1>>, <<"u", 1>>, <<"n", 1>>, <<"c", 1>>, <<"a", 1>>,
       <<"t", 1>>, <<"e", 1>>, <<"d", 1>>, <<" ", 1>>,
       <<"d", 1>>, <<"u", 1>>, <<"e", 1>>, <<" ", 1>>,
       <<"t", 1>>, <<"o", 1>>, <<" ", 1>>,
       <<"s", 1>>, <<"i", 1>>, <<"z", 1>>, <<"e", 1>>, <<" ", 1>>,
       <<".", 3>>, <<"]", 1>> >>

(***************************************************************************)
(* The tokenizer (tiktoken cl100k_base) is a library; it is modelled as a  *)
(* deterministic encoder that cuts the text into tokens of CharsPerToken   *)
(* characters and that raises on a text holding a disallowed special       *)
(* token, written here as the character "S".                               *)
(***************************************************************************)
CharsPerToken == 4

EncodeRaises(t) == \E i \in 1..Len(t) : t[i][1] = "S"

\* len(self.tokenizer.encode(s))
TokenCount(t) == (TLen(t) + CharsPerToken - 1) \div CharsPerToken

\* self.tokenizer.decode(self.tokenizer.encode(s)[:n])
DecodePrefix(t, n) == TTake(t, n * CharsPerToken)


(***************************************************************************)
(* Errors.  An exception is a record; `message` is a plain sequence of     *)
(* characters (<<>> stands for None or "").                                *)
(***************************************************************************)
CONNECTION_CLOSED == -32000
INVALID_PARAMS == -32602

MsgNone == <<>>
MsgSessionTerminated ==
    <<"S", "e", "s", "s", "i", "o", "n", " ", "T", "e", "r", "m", "i", "n",
      "a", "t", "e", "d">>
MsgConnectionClosed ==
    <<"C", "o", "n", "n", "e", "c", "t", "i", "o", "n", " ", "c", "l", "o",
      "s", "e", "d", " ", "b", "y", " ", "p", "e", "e", "r">>
MsgInvalidParams ==
    <<"I", "n", "v", "a", "l", "i", "d", " ", "p", "a", "r", "a", "m", "s">>

UpperToLower == [c \in {"S", "T", "C", "I"} |->
    CASE c = "S" -> "s" [] c = "T" -> "t" [] c = "C" -> "c" [] c = "I" -> "i"]

\* str.lower()
Lower(m) ==
    [i \in 1..Len(m) |->
        IF m[i] \in DOMAIN UpperToLower THEN UpperToLower[m[i]] ELSE m[i]]

\* needle in hay
Contains(hay, needle) ==
    \E i \in 0..(Len(hay) - Len(needle)) :
        \A j \in 1..Len(needle) : hay[i + j] = needle[j]

McpError(code, message) ==
    [type |-> "McpError", code |-> code, message |-> message]
HTTPError == [type |-> "HTTPError", code |-> 0, message |-> MsgNone]
\* an exception that is neither McpError nor httpx.HTTPError
OtherError(name) == [type |-> name, code |-> 0, message |-> MsgNone]
\* RuntimeError("Not connected to upstream")
NotConnectedError == OtherError("RuntimeError:NotConnected")
\* RuntimeError(f"Failed to execute {operation_name} even after reconnect")
ExhaustedRetriesError == OtherError("RuntimeError:FailedAfterReconnect")

\* no exception: the operation returned
NoError == [type |-> "none", code |-> 0, message |-> MsgNone]

\* the McpErrors the upstream operation can raise
McpErrors ==
    { McpError(CONNECTION_CLOSED, MsgNone),
      McpError(INVALID_PARAMS, MsgSessionTerminated),
      McpError(INVALID_PARAMS, MsgConnectionClosed),
      McpError(INVALID_PARAMS, MsgInvalidParams),
      McpError(INVALID_PARAMS, MsgNone) }

ConcurrentMcpErrors ==
    { McpError(CONNECTION_CLOSED, MsgNone),
      McpError(INVALID_PARAMS, MsgInvalidParams) }

\* a variant that compares the message as it is written
_should_reconnect_CaseSensitive(exc) ==
    \/ exc.code = CONNECTION_CLOSED
    \/ LET message == exc.message
       IN  \/ Contains(message, <<"s", "e", "s", "s", "i", "o", "n", " ", "t",
                                  "e", "r", "m", "i", "n", "a", "t", "e", "d">>)
           \/ Contains(message, <<"c", "o", "n", "n", "e", "c", "t", "i", "o",
                                  "n", " ", "c", "l", "o", "s", "e", "d">>)

_should_reconnect(exc) ==
    \/ exc.code = CONNECTION_CLOSED
    \/ LET message == Lower(exc.message)
       IN  \/ Contains(message, <<"s", "e", "s", "s", "i", "o", "n", " ", "t",
                                  "e", "r", "m", "i", "n", "a", "t", "e", "d">>)
           \/ Contains(message, <<"c", "o", "n", "n", "e", "c", "t", "i", "o",
                                  "n", " ", "c", "l", "o", "s", "e", "d">>)

(***************************************************************************)
(* Configuration given to the constructor: the tool rules, and whether an  *)
(* LLM base URL was given (llm_client) and the encoder loaded (tokenizer). *)
(***************************************************************************)
DefaultMaxTokens == 8000
MaxInputTokens == 128000
ProgressStep == 500

tool_rules ==
    [ fetch  |-> [enabled |-> TRUE, max_tokens |-> 100],
      search |-> [enabled |-> TRUE],
      off    |-> [enabled |-> FALSE, max_tokens |-> 100] ]

ToolNames == {"fetch", "search", "off", "plain"}
ConcurrentToolNames == {"fetch", "plain"}

\* dict.get(key, default)
Get(d, key, default) == IF key \in DOMAIN d THEN d[key] ELSE default

\* self.tool_rules.get(name, {})
RuleOf(name) == Get(tool_rules, name, [x \in {} |-> 0])

(***************************************************************************)
(* Upstream results: the content list of a CallToolResult.                 *)
(***************************************************************************)
TextContent(t) == [type |-> "text", text |-> t]
ImageContent == [type |-> "image", text |-> <<>>]

Small == TCat(Rep("a", 1), Rep("b", 1))
AtLimit == Rep("a", 400)
Medium == Rep("a", 1000)
Huge == Rep("a", 600000)
SpecialMedium == TCat(Rep("S", 1), Rep("a", 999))
SpecialHuge == TCat(Rep("S", 1), Rep("a", 600000))

Contents ==
    { <<>>,
      <<TextContent(Small)>>,
      <<TextContent(AtLimit)>>,
      <<TextContent(Rep("a", 600)), ImageContent, TextContent(Rep("b", 400))>>,
      <<ImageContent, TextContent(Medium)>>,
      <<TextContent(Huge)>>,
      <<TextContent(SpecialMedium)>>,
      <<TextContent(SpecialHuge)>> }

ConcurrentContents == { <<ImageContent, TextContent(Medium)>> }

\* the fragments a stream chunk can carry (<<>>: a chunk without content)
Fragments ==
    { <<>>, Rep(" ", 3), TCat(Rep(" ", 1), Rep("x", 600)), Rep("y", 200) }

ConcurrentFragments == { TCat(Rep(" ", 1), Rep("x", 600)) }


(***************************************************************************)
(* State.                                                                  *)
(***************************************************************************)
VARIABLES
    upstream_session,   \* self.upstream_session: a handle, 0 for None
    upstream_context,   \* self.upstream_context: a handle, 0 for None
    lock,               \* self._connection_lock: the holder, 0 when free
    waiters,            \* the lock's FIFO queue of waiting tasks
    llm_client,         \* self.llm_client is not None
    tokenizer,          \* self.tokenizer is not None
    running,            \* the task that holds the event loop, 0 for none
    pc,                 \* where each task stands
    loc,                \* the locals of each task's handler
    nextId,             \* the next fresh connection handle
    created,            \* session handles constructed (ClientSession(...))
    handshaken,         \* session handles whose initialize() returned
    closed,             \* session handles whose __aexit__ returned
    ctxClosed,          \* transport contexts whose __aexit__ returned
    calls,              \* handler invocations so far
    env,                \* the load: "concurrent" or "single" requests
    hist                \* per task: what its current call has done so far

conn == <<upstream_session, upstream_context, nextId, created, handshaken,
          closed, ctxClosed>>
gate == <<lock, waiters>>
config == <<llm_client, tokenizer>>
vars == <<conn, gate, config, env, running, pc, loc, calls, hist>>

NoResult == [kind |-> "none", value |-> <<>>]
Returned(v) == [kind |-> "return", value |-> v]
Raised(exc) == [kind |-> "raise", value |-> exc]

InitLoc ==
    [ handler |-> "none", name |-> "", ctx |-> FALSE, attempt |-> 0,
      session |-> 0, force |-> FALSE, ret |-> "", content |-> <<>>,
      output_str |-> <<>>, summary_chunks |-> <<>>, total_chars |-> 0,
      last_progress_update |-> 0, summary |-> <<>> ]

InitHist ==
    [ startPresent |-> FALSE,  \* a session was stored when the call began
      opCount |-> 0,           \* invocations of the upstream operation
      begun |-> 0,             \* reconnect cycles the call began
      completed |-> 0,         \* reconnect cycles the call completed
      forced |-> 0,            \* forced reconnect cycles the call began
      outcomes |-> <<>>,       \* <<handle, outcome, exception>> of each
                               \* invocation
      failedOn |-> 0,          \* handle of a first attempt's dead session
      peers |-> {},            \* tasks in their first attempt on the same
                               \* handle when this call made its own
      sumInvoked |-> FALSE,    \* _summarize_output was called
      text0 |-> <<>>,          \* the concatenated text of the result
      estimated |-> 0,         \* its estimated token count
      backendCalls |-> 0,      \* chat.completions.create calls
      streamed |-> 0,          \* chunks the stream has delivered
      backendFailed |-> FALSE, \* the backend raised (open or mid-stream)
      events |-> <<>>,         \* progress values delivered, <<num, den>>
      emitted |-> <<>>,        \* progress values sent, delivered or not
      result |-> NoResult ]

\* the state after create_proxy_server: connect_upstream has returned
Connected ==
    /\ upstream_session = 1
    /\ upstream_context = 1
    /\ nextId = 2
    /\ created = {1}
    /\ handshaken = {1}
    /\ closed = {}
    /\ ctxClosed = {}
    /\ lock = 0
    /\ waiters = <<>>
    /\ running = 0
    /\ pc = [t \in Tasks |-> "idle"]
    /\ loc = [t \in Tasks |-> InitLoc]
    /\ calls = 0
    /\ hist = [t \in Tasks |-> InitHist]

\* concurrent requests, over a few upstream results, with the backend and
\* the tokenizer configured
Init ==
    /\ Connected
    /\ llm_client = TRUE
    /\ tokenizer = TRUE
    /\ env = "concurrent"

\* one request at a time, over every upstream result and configuration
InitSingle ==
    /\ Connected
    /\ llm_client \in BOOLEAN
    /\ tokenizer \in BOOLEAN
    /\ env = "single"

\* the requests that arrive, what the upstream operation can return or
\* raise, and what the stream can deliver
Requested == IF env = "single" THEN ToolNames ELSE ConcurrentToolNames
Results == IF env = "single" THEN Contents ELSE ConcurrentContents
RaisedMcpErrors == IF env = "single" THEN McpErrors ELSE ConcurrentMcpErrors
StreamFragments == IF env = "single" THEN Fragments ELSE ConcurrentFragments
\* whether the delivery of a progress event succeeds
Deliveries == IF env = "single" THEN BOOLEAN ELSE {TRUE}

\* the handler ends: its task is done and the event loop is free
Ends(t, res, h) ==
    /\ pc' = [pc EXCEPT ![t] = "done"]
    /\ hist' = [hist EXCEPT ![t] = [h EXCEPT !.result = res]]
    /\ running' = 0

\* control moves on inside the running task, no suspension
Goto(t, label) ==
    /\ pc' = [pc EXCEPT ![t] = label]
    /\ running' = t

\* the task suspends in an await
Awaits(t, label) ==
    /\ pc' = [pc EXCEPT ![t] = label]
    /\ running' = 0

CanStart(t) ==
    /\ running = 0
    /\ pc[t] \in {"idle", "done"}
    /\ calls < MaxCalls


(***************************************************************************)
(* The handlers' entry.                                                    *)
(***************************************************************************)
\* list_tools(): straight into the dispatcher
list_tools(t) ==
    /\ CanStart(t)
    /\ calls' = calls + 1
    /\ loc' = [loc EXCEPT ![t] = [InitLoc EXCEPT !.handler = "list"]]
    /\ hist' = [hist EXCEPT ![t] =
                   [InitHist EXCEPT !.startPresent = (upstream_session # 0)]]
    /\ Goto(t, "loop")
    /\ UNCHANGED <<conn, gate, config, env>>

\* call_tool(name, arguments, ctx): refuses when no session is stored
call_tool(t) ==
    /\ CanStart(t)
    /\ calls' = calls + 1
    /\ \E name \in Requested, ctx \in BOOLEAN :
          loc' = [loc EXCEPT ![t] =
                     [InitLoc EXCEPT !.handler = "call", !.name = name,
                                     !.ctx = ctx]]
    /\ IF upstream_session = 0
       THEN Ends(t, Raised(NotConnectedError), InitHist)
       ELSE /\ hist' = [hist EXCEPT ![t] =
                           [InitHist EXCEPT !.startPresent = TRUE]]
            /\ Goto(t, "loop")
    /\ UNCHANGED <<conn, gate, config, env>>

(***************************************************************************)
(* _execute_with_reconnect                                                 *)
(***************************************************************************)
NumAttempts == 2

\* a variant that keeps the session it took on the first attempt
Invoke_StaleSnapshot(t) ==
    /\ loc' = [loc EXCEPT ![t].session =
                  IF @ # 0 THEN @ ELSE upstream_session]
    /\ hist' = [hist EXCEPT ![t] =
          [@ EXCEPT !.opCount = @ + 1,
                    !.peers = IF loc[t].attempt = 0
                              THEN { u \in Tasks \ {t} :
                                       /\ pc[u] = "op"
                                       /\ loc[u].attempt = 0
                                       /\ loc[u].session = upstream_session }
                              ELSE @]]
    /\ Awaits(t, "op")

\* session = self.upstream_session; await operation(session)
Invoke(t) ==
    /\ loc' = [loc EXCEPT ![t].session = upstream_session]
    /\ hist' = [hist EXCEPT ![t] =
          [@ EXCEPT !.opCount = @ + 1,
                    !.peers = IF loc[t].attempt = 0
                              THEN { u \in Tasks \ {t} :
                                       /\ pc[u] = "op"
                                       /\ loc[u].attempt = 0
                                       /\ loc[u].session = upstream_session }
                              ELSE @]]
    /\ Awaits(t, "op")

\* await self._reconnect_upstream(reason, force), coming back at `ret`
CallReconnect(t, force, ret) ==
    /\ loc' = [loc EXCEPT ![t].force = force, ![t].ret = ret]
    /\ Goto(t, "reconnect")

\* the head of the loop: for attempt in range(2), and the session check
_execute_with_reconnect(t) ==
    /\ running = t
    /\ pc[t] = "loop"
    /\ IF loc[t].attempt >= NumAttempts
       THEN /\ Ends(t, Raised(ExhaustedRetriesError), hist[t])
            /\ UNCHANGED loc
       ELSE IF upstream_session = 0
            THEN /\ CallReconnect(t, FALSE, "session_missing")
                 /\ UNCHANGED hist
            ELSE Invoke(t)
    /\ UNCHANGED <<conn, gate, config, env, calls>>

\* back from _reconnect_upstream("session missing")
_execute_with_reconnect_session_missing(t) ==
    /\ running = t
    /\ pc[t] = "session_missing"
    /\ IF upstream_session = 0
       THEN /\ loc' = [loc EXCEPT ![t].attempt = @ + 1]
            /\ Goto(t, "loop")
            /\ UNCHANGED hist
       ELSE Invoke(t)
    /\ UNCHANGED <<conn, gate, config, env, calls>>

\* a variant that retries without counting the attempt
_execute_with_reconnect_retry_uncounted(t) ==
    /\ running = t
    /\ pc[t] = "retry"
    /\ Goto(t, "loop")
    /\ UNCHANGED <<conn, gate, config, env, calls, loc, hist>>

\* back from the forced reconnect of an except clause: next attempt
_execute_with_reconnect_retry(t) ==
    /\ running = t
    /\ pc[t] = "retry"
    /\ loc' = [loc EXCEPT ![t].attempt = @ + 1]
    /\ Goto(t, "loop")
    /\ UNCHANGED <<conn, gate, config, env, calls, hist>>

\* what the invocation that is over did, and what it raised
Observed(t, what, exc) ==
    [hist[t] EXCEPT !.outcomes = Append(@, <<loc[t].session, what, exc>>)]

\* how an invocation that raised is recorded: a dead-session signal is
\* "closed" (McpError) or "http" (httpx.HTTPError)
KindOf(exc, eligible) ==
    IF exc.type = "HTTPError" THEN "http"
    ELSE IF eligible THEN "closed" ELSE "error"

\* a variant that reconnects and retries on the last attempt too
OnSessionError_RetriesOnLastAttempt(t, exc, eligible) ==
    IF ~eligible
    THEN /\ Ends(t, Raised(exc), Observed(t, KindOf(exc, eligible), exc))
         /\ UNCHANGED loc
    ELSE /\ hist' = [hist EXCEPT ![t] =
                [Observed(t, KindOf(exc, eligible), exc) EXCEPT
                    !.failedOn = IF loc[t].attempt = 0
                                 THEN loc[t].session ELSE @]]
         /\ CallReconnect(t, TRUE, "retry")

\* a variant that raises the generic error once the attempts are used up
OnSessionError_RaisesExhausted(t, exc, eligible) ==
    IF ~eligible \/ loc[t].attempt = 1
    THEN /\ Ends(t, Raised(IF eligible THEN ExhaustedRetriesError ELSE exc),
                 Observed(t, KindOf(exc, eligible), exc))
         /\ UNCHANGED loc
    ELSE /\ hist' = [hist EXCEPT ![t] =
                [Observed(t, KindOf(exc, eligible), exc) EXCEPT
                    !.failedOn = loc[t].session]]
         /\ CallReconnect(t, TRUE, "retry")

\* except McpError / except httpx.HTTPError: raise, or reconnect and retry
OnSessionError(t, exc, eligible) ==
    IF ~eligible \/ loc[t].attempt = 1
    THEN /\ Ends(t, Raised(exc), Observed(t, KindOf(exc, eligible), exc))
         /\ UNCHANGED loc
    ELSE /\ hist' = [hist EXCEPT ![t] =
                [Observed(t, KindOf(exc, eligible), exc) EXCEPT
                    !.failedOn = loc[t].session]]
         /\ CallReconnect(t, TRUE, "retry")

\* the operation raises McpError
operation_raises_McpError(t) ==
    /\ running = 0
    /\ pc[t] = "op"
    /\ \E exc \in RaisedMcpErrors : OnSessionError(t, exc, _should_reconnect(exc))
    /\ UNCHANGED <<conn, gate, config, env, calls>>

\* the operation raises httpx.HTTPError
operation_raises_HTTPError(t) ==
    /\ running = 0
    /\ pc[t] = "op"
    /\ OnSessionError(t, HTTPError, TRUE)
    /\ UNCHANGED <<conn, gate, config, env, calls>>

\* the operation raises anything else: no except clause matches
operation_raises_other(t) ==
    /\ running = 0
    /\ pc[t] = "op"
    /\ LET exc == OtherError("ValueError")
       IN  Ends(t, Raised(exc), Observed(t, "error", exc))
    /\ UNCHANGED <<conn, gate, config, env, calls, loc>>


(***************************************************************************)
(* _reconnect_upstream, disconnect_upstream, connect_upstream              *)
(***************************************************************************)
\* a variant that leaves the lock held when the body raises
ReconnectRaises_KeepsLock(t, exc) ==
    /\ Ends(t, Raised(exc), hist[t])
    /\ UNCHANGED <<lock, waiters, loc>>

\* an exception leaves _reconnect_upstream: `async with` releases the lock
\* and the exception propagates through the dispatcher to the caller
ReconnectRaises(t, exc) ==
    /\ lock' = 0
    /\ Ends(t, Raised(exc), hist[t])
    /\ UNCHANGED <<waiters, loc>>

\* a variant without the lock: the body is entered at once
_reconnect_upstream_unguarded(t) ==
    /\ running = t
    /\ pc[t] = "reconnect"
    /\ lock' = t
    /\ Goto(t, "locked")
    /\ UNCHANGED <<conn, waiters, config, env, calls, loc, hist>>

\* async with self._connection_lock: taken at once when free and nobody
\* waits, else the task queues up and suspends (asyncio.Lock is FIFO)
_reconnect_upstream(t) ==
    /\ running = t
    /\ pc[t] = "reconnect"
    /\ IF lock = 0 /\ waiters = <<>>
       THEN /\ lock' = t
            /\ Goto(t, "locked")
            /\ UNCHANGED waiters
       ELSE /\ waiters' = Append(waiters, t)
            /\ Awaits(t, "wait_lock")
            /\ UNCHANGED lock
    /\ UNCHANGED <<conn, config, env, calls, loc, hist>>

\* the released lock wakes its first waiter, which takes it
_connection_lock_acquired(t) ==
    /\ running = 0
    /\ pc[t] = "wait_lock"
    /\ lock = 0
    /\ waiters # <<>> /\ Head(waiters) = t
    /\ lock' = t
    /\ waiters' = Tail(waiters)
    /\ Goto(t, "locked")
    /\ UNCHANGED <<conn, config, env, calls, loc, hist>>

\* a variant that connects without disconnecting first
_reconnect_upstream_locked_no_teardown(t) ==
    /\ running = t
    /\ pc[t] = "locked"
    /\ IF upstream_session # 0 /\ ~loc[t].force
       THEN /\ lock' = 0
            /\ Goto(t, loc[t].ret)
            /\ UNCHANGED hist
       ELSE /\ hist' = [hist EXCEPT ![t] =
                   [@ EXCEPT !.begun = @ + 1,
                             !.forced = IF loc[t].force THEN @ + 1 ELSE @]]
            /\ Goto(t, "connect")
            /\ UNCHANGED lock
    /\ UNCHANGED <<conn, waiters, config, env, calls, loc>>

\* a variant without the early return
_reconnect_upstream_locked_always_cycles(t) ==
    /\ running = t
    /\ pc[t] = "locked"
    /\ hist' = [hist EXCEPT ![t] =
          [@ EXCEPT !.begun = @ + 1,
                    !.forced = IF loc[t].force THEN @ + 1 ELSE @]]
    /\ Goto(t, "disconnect")
    /\ UNCHANGED <<conn, gate, config, env, calls, loc>>

\* if self.upstream_session and not force: return -- else a cycle begins
_reconnect_upstream_locked(t) ==
    /\ running = t
    /\ pc[t] = "locked"
    /\ IF upstream_session # 0 /\ ~loc[t].force
       THEN /\ lock' = 0
            /\ Goto(t, loc[t].ret)
            /\ UNCHANGED hist
       ELSE /\ hist' = [hist EXCEPT ![t] =
                   [@ EXCEPT !.begun = @ + 1,
                             !.forced = IF loc[t].force THEN @ + 1 ELSE @]]
            /\ Goto(t, "disconnect")
            /\ UNCHANGED lock
    /\ UNCHANGED <<conn, waiters, config, env, calls, loc>>

\* disconnect_upstream: if self.upstream_session: await ....__aexit__
disconnect_upstream(t) ==
    /\ running = t
    /\ pc[t] = "disconnect"
    /\ IF upstream_session # 0
       THEN Awaits(t, "session_exit")
       ELSE Goto(t, "disconnect_context")
    /\ UNCHANGED <<conn, gate, config, env, calls, loc, hist>>

\* the session's __aexit__ returns (self.upstream_session = None) or raises
disconnect_upstream_session_exit(t) ==
    /\ running = 0
    /\ pc[t] = "session_exit"
    /\ \/ /\ closed' = closed \cup {upstream_session}
          /\ upstream_session' = 0
          /\ Goto(t, "disconnect_context")
          /\ UNCHANGED <<gate, loc, hist>>
       \/ /\ ReconnectRaises(t, OtherError("TeardownError"))
          /\ UNCHANGED <<upstream_session, closed>>
    /\ UNCHANGED <<upstream_context, nextId, created, handshaken, ctxClosed,
                   config, env, calls>>

\* if self.upstream_context: await ....__aexit__ -- else on to connect
disconnect_upstream_context(t) ==
    /\ running = t
    /\ pc[t] = "disconnect_context"
    /\ IF upstream_context # 0
       THEN Awaits(t, "context_exit")
       ELSE Goto(t, "connect")
    /\ UNCHANGED <<conn, gate, config, env, calls, loc, hist>>

\* the context's __aexit__ returns (self.upstream_context = None) or raises
disconnect_upstream_context_exit(t) ==
    /\ running = 0
    /\ pc[t] = "context_exit"
    /\ \/ /\ ctxClosed' = ctxClosed \cup {upstream_context}
          /\ upstream_context' = 0
          /\ Goto(t, "connect")
          /\ UNCHANGED <<gate, loc, hist>>
       \/ /\ ReconnectRaises(t, OtherError("TeardownError"))
          /\ UNCHANGED <<upstream_context, ctxClosed>>
    /\ UNCHANGED <<upstream_session, nextId, created, handshaken, closed,
                   config, env, calls>>

\* connect_upstream: self.upstream_context = streamablehttp_client(url)
\* and await its __aenter__
connect_upstream(t) ==
    /\ running = t
    /\ pc[t] = "connect"
    /\ upstream_context' = nextId
    /\ nextId' = nextId + 1
    /\ Awaits(t, "context_enter")
    /\ UNCHANGED <<upstream_session, created, handshaken, closed, ctxClosed,
                   gate, config, env, calls, loc, hist>>

\* __aenter__ returns the streams: self.upstream_session = ClientSession(..)
\* and await its __aenter__ -- or it raises
connect_upstream_context_enter(t) ==
    /\ running = 0
    /\ pc[t] = "context_enter"
    /\ \/ /\ upstream_session' = upstream_context
          /\ created' = created \cup {upstream_context}
          /\ Awaits(t, "session_enter")
          /\ UNCHANGED <<gate, loc, hist>>
       \/ /\ ReconnectRaises(t, OtherError("ConnectError"))
          /\ UNCHANGED <<upstream_session, created>>
    /\ UNCHANGED <<upstream_context, nextId, handshaken, closed, ctxClosed,
                   config, env, calls>>

\* the session's __aenter__ returns: await self.upstream_session.initialize()
connect_upstream_session_enter(t) ==
    /\ running = 0
    /\ pc[t] = "session_enter"
    /\ \/ /\ Awaits(t, "initialize")
          /\ UNCHANGED <<gate, loc, hist>>
       \/ ReconnectRaises(t, OtherError("ConnectError"))
    /\ UNCHANGED <<conn, config, env, calls>>

\* initialize() returns: await self.upstream_session.list_tools()
connect_upstream_initialize(t) ==
    /\ running = 0
    /\ pc[t] = "initialize"
    /\ \/ /\ handshaken' = handshaken \cup {upstream_session}
          /\ Awaits(t, "discover")
          /\ UNCHANGED <<gate, loc, hist>>
       \/ /\ ReconnectRaises(t, OtherError("ConnectError"))
          /\ UNCHANGED handshaken
    /\ UNCHANGED <<upstream_session, upstream_context, nextId, created,
                   closed, ctxClosed, config, env, calls>>

\* list_tools() returns: connect_upstream returns, _reconnect_upstream
\* releases the lock and returns to the dispatcher
connect_upstream_list_tools(t) ==
    /\ running = 0
    /\ pc[t] = "discover"
    /\ \/ /\ lock' = 0
          /\ hist' = [hist EXCEPT ![t].completed = @ + 1]
          /\ Goto(t, loc[t].ret)
          /\ UNCHANGED <<waiters, loc>>
       \/ ReconnectRaises(t, OtherError("ConnectError"))
    /\ UNCHANGED <<conn, config, env, calls>>


(***************************************************************************)
(* The operation returns: the rest of the handlers.                        *)
(***************************************************************************)
\* what list_tools returns: result.tools
ToolList == <<[type |-> "tool", text |-> <<>>]>>

\* a variant whose default for a missing rule or flag is True
SummarizationConfigured_DefaultEnabled(name) ==
    Get(RuleOf(name), "enabled", TRUE) /\ llm_client

\* rule.get("enabled", False) and self.llm_client
SummarizationConfigured(name) ==
    Get(RuleOf(name), "enabled", FALSE) /\ llm_client

\* return await operation(session), then lines 99-108 of call_tool
operation_returns(t) ==
    /\ running = 0
    /\ pc[t] = "op"
    /\ IF loc[t].handler = "list"
       THEN /\ Ends(t, Returned(ToolList), Observed(t, "ok", NoError))
            /\ UNCHANGED loc
       ELSE \E content \in Results :
              IF SummarizationConfigured(loc[t].name)
              THEN /\ loc' = [loc EXCEPT ![t].content = content]
                   /\ hist' = [hist EXCEPT ![t] = Observed(t, "ok", NoError)]
                   /\ Goto(t, "summarize")
              ELSE /\ loc' = [loc EXCEPT ![t].content = content]
                   /\ Ends(t, Returned(content), Observed(t, "ok", NoError))
    /\ UNCHANGED <<conn, gate, config, env, calls>>

(***************************************************************************)
(* _summarize_output                                                       *)
(***************************************************************************)
\* the texts of the TextContent items, in order
TextParts(content) ==
    LET sel == SelectSeq(content, LAMBDA c : c.type = "text")
    IN  [i \in 1..Len(sel) |-> sel[i].text]

\* "\n".join(text_parts)
OutputStr(content) == Join(Rep("\n", 1), TextParts(content))

\* lines 214-221: the tokenizer's count, len(output_str) // 2 without it
\* or when it raises
EstimateTokens(text) ==
    IF tokenizer /\ ~EncodeRaises(text)
    THEN TokenCount(text)
    ELSE TLen(text) \div 2

\* lines 245-253, when the tokenizer does not raise
Clip(text) ==
    IF tokenizer
    THEN TCat(DecodePrefix(text, MaxInputTokens), TruncationNotice)
    ELSE TCat(TTake(text, MaxInputTokens * 2), TruncationNotice)

\* a variant without the cap
EstimatedProgress_Uncapped(total_chars, max_tokens) ==
    <<total_chars, max_tokens * 4>>

\* min(0.9, total_chars / (max_tokens * 4)) as a fraction <<num, den>>
EstimatedProgress(total_chars, max_tokens) ==
    IF total_chars * 10 >= 9 * (max_tokens * 4)
    THEN <<9, 10>>
    ELSE <<total_chars, max_tokens * 4>>

MaxTokensOf(name) == Get(RuleOf(name), "max_tokens", DefaultMaxTokens)

\* a variant that summarizes an output exactly at the limit
AlreadySmallEnough_Strict(estimated_tokens, max_tokens) ==
    estimated_tokens < max_tokens

\* line 229: if estimated_tokens <= max_tokens
AlreadySmallEnough(estimated_tokens, max_tokens) ==
    estimated_tokens <= max_tokens

\* call_tool returns [TextContent(type="text", text=summarized_content)]
SummarizeReturns(t, text, h) ==
    Ends(t, Returned(<<TextContent(text)>>), h)

\* await self.llm_client.chat.completions.create(..., stream=True)
CallBackend(t, h) ==
    /\ hist' = [hist EXCEPT ![t] = [h EXCEPT !.backendCalls = @ + 1]]
    /\ Awaits(t, "create")

\* lines 202-267: up to the first await
_summarize_output(t) ==
    /\ running = t
    /\ pc[t] = "summarize"
    /\ LET max_tokens == MaxTokensOf(loc[t].name)
           output_str == OutputStr(loc[t].content)
           estimated_tokens == EstimateTokens(output_str)
           h == [hist[t] EXCEPT !.sumInvoked = TRUE, !.text0 = output_str,
                                !.estimated = estimated_tokens]
       IN  IF AlreadySmallEnough(estimated_tokens, max_tokens) \/ ~llm_client
           THEN /\ SummarizeReturns(t, output_str, h)
                /\ UNCHANGED loc
           ELSE IF estimated_tokens > MaxInputTokens /\ tokenizer
                   /\ EncodeRaises(output_str)
           THEN \* self.tokenizer.encode(output_str) raises outside any try
                /\ Ends(t, Raised(OtherError("TokenizerError")), h)
                /\ UNCHANGED loc
           ELSE /\ loc' = [loc EXCEPT ![t].output_str =
                              IF estimated_tokens > MaxInputTokens
                              THEN Clip(output_str) ELSE output_str]
                /\ IF loc[t].ctx
                   THEN /\ hist' = [hist EXCEPT ![t] = h]
                        /\ Awaits(t, "progress_start")
                   ELSE CallBackend(t, h)
    /\ UNCHANGED <<conn, gate, config, env, calls>>

\* the delivery of a progress event returns or raises (raise: ignored)
Delivered(t, progress, ok) ==
    [hist[t] EXCEPT !.emitted = Append(@, progress),
                    !.events = IF ok THEN Append(@, progress) ELSE @]

\* the send of progress=0.0 is over
_summarize_output_progress_start(t) ==
    /\ running = 0
    /\ pc[t] = "progress_start"
    /\ \E ok \in Deliveries : CallBackend(t, Delivered(t, <<0, 1>>, ok))
    /\ UNCHANGED <<conn, gate, config, env, calls, loc>>

\* create() returns the stream or raises
_summarize_output_create(t) ==
    /\ running = 0
    /\ pc[t] = "create"
    /\ \/ /\ loc' = [loc EXCEPT ![t].summary_chunks = <<>>,
                                ![t].total_chars = 0,
                                ![t].last_progress_update = 0]
          /\ Awaits(t, "stream")
          /\ UNCHANGED hist
       \/ /\ SummarizeReturns(t, loc[t].output_str,
                              [hist[t] EXCEPT !.backendFailed = TRUE])
          /\ UNCHANGED loc
    /\ UNCHANGED <<conn, gate, config, env, calls>>

\* async for chunk in stream: one chunk arrives
_summarize_output_chunk(t) ==
    /\ running = 0
    /\ pc[t] = "stream"
    /\ hist[t].streamed < MaxChunks
    /\ hist' = [hist EXCEPT ![t].streamed = @ + 1]
    /\ \E content \in StreamFragments :
          IF content # <<>>
          THEN LET total_chars == loc[t].total_chars + TLen(content)
               IN  /\ loc' = [loc EXCEPT
                        ![t].summary_chunks = Append(@, content),
                        ![t].total_chars = total_chars]
                   /\ IF loc[t].ctx /\ total_chars
                           - loc[t].last_progress_update > ProgressStep
                      THEN Awaits(t, "progress")
                      ELSE Awaits(t, "stream")
          ELSE /\ Awaits(t, "stream")
               /\ UNCHANGED loc
    /\ UNCHANGED <<conn, gate, config, env, calls>>

\* the send of the estimated progress is over
_summarize_output_progress(t) ==
    /\ running = 0
    /\ pc[t] = "progress"
    /\ \E ok \in Deliveries :
          /\ hist' = [hist EXCEPT ![t] =
                Delivered(t, EstimatedProgress(loc[t].total_chars,
                                               MaxTokensOf(loc[t].name)), ok)]
          /\ loc' = [loc EXCEPT ![t].last_progress_update =
                        IF ok THEN loc[t].total_chars ELSE @]
    /\ Awaits(t, "stream")
    /\ UNCHANGED <<conn, gate, config, env, calls>>

\* a variant that lets the stream's exception leave _summarize_output
_summarize_output_stream_raises_uncaught(t) ==
    /\ running = 0
    /\ pc[t] = "stream"
    /\ Ends(t, Raised(OtherError("APIError")),
            [hist[t] EXCEPT !.backendFailed = TRUE])
    /\ UNCHANGED <<conn, gate, config, env, calls, loc>>

\* the stream raises
_summarize_output_stream_raises(t) ==
    /\ running = 0
    /\ pc[t] = "stream"
    /\ SummarizeReturns(t, loc[t].output_str,
                        [hist[t] EXCEPT !.backendFailed = TRUE])
    /\ UNCHANGED <<conn, gate, config, env, calls, loc>>

\* "".join(chunks)
RECURSIVE JoinAll(_)
JoinAll(chunks) ==
    IF chunks = <<>> THEN <<>> ELSE TCat(Head(chunks), JoinAll(Tail(chunks)))

\* the stream ends: summary = "".join(summary_chunks) or output_str
_summarize_output_stream_ends(t) ==
    /\ running = 0
    /\ pc[t] = "stream"
    /\ LET joined == JoinAll(loc[t].summary_chunks)
           summary == IF joined # <<>> THEN joined ELSE loc[t].output_str
       IN  IF loc[t].ctx
           THEN /\ loc' = [loc EXCEPT ![t].summary = summary]
                /\ Awaits(t, "progress_final")
                /\ UNCHANGED hist
           ELSE /\ loc' = [loc EXCEPT ![t].summary = summary]
                /\ SummarizeReturns(t, Strip(summary), hist[t])
    /\ UNCHANGED <<conn, gate, config, env, calls>>

\* the send of progress=1.0 is over: return summary.strip()
_summarize_output_progress_final(t) ==
    /\ running = 0
    /\ pc[t] = "progress_final"
    /\ \E ok \in Deliveries :
          SummarizeReturns(t, Strip(loc[t].summary), Delivered(t, <<1, 1>>, ok))
    /\ UNCHANGED <<conn, gate, config, env, calls, loc>>

(***************************************************************************)
(* The specification.                                                      *)
(***************************************************************************)
Next ==
    \E t \in Tasks :
        \/ list_tools(t)
        \/ call_tool(t)
        \/ _execute_with_reconnect(t)
        \/ _execute_with_reconnect_session_missing(t)
        \/ _execute_with_reconnect_retry(t)
        \/ operation_returns(t)
        \/ operation_raises_McpError(t)
        \/ operation_raises_HTTPError(t)
        \/ operation_raises_other(t)
        \/ _reconnect_upstream(t)
        \/ _connection_lock_acquired(t)
        \/ _reconnect_upstream_locked(t)
        \/ disconnect_upstream(t)
        \/ disconnect_upstream_session_exit(t)
        \/ disconnect_upstream_context(t)
        \/ disconnect_upstream_context_exit(t)
        \/ connect_upstream(t)
        \/ connect_upstream_context_enter(t)
        \/ connect_upstream_session_enter(t)
        \/ connect_upstream_initialize(t)
        \/ connect_upstream_list_tools(t)
        \/ _summarize_output(t)
        \/ _summarize_output_progress_start(t)
        \/ _summarize_output_create(t)
        \/ _summarize_output_chunk(t)
        \/ _summarize_output_progress(t)
        \/ _summarize_output_stream_raises(t)
        \/ _summarize_output_stream_ends(t)
        \/ _summarize_output_progress_final(t)

Spec == Init /\ [][Next]_vars

\* the dispatcher under list_tools requests alone: what a task does once its
\* request has arrived, the steps of the dispatcher and the completions of
\* what it awaits
Dispatch(t) ==
    \/ _execute_with_reconnect(t)
    \/ _execute_with_reconnect_session_missing(t)
    \/ _execute_with_reconnect_retry(t)
    \/ operation_returns(t)
    \/ operation_raises_McpError(t)
    \/ operation_raises_HTTPError(t)
    \/ operation_raises_other(t)
    \/ _reconnect_upstream(t)
    \/ _connection_lock_acquired(t)
    \/ _reconnect_upstream_locked(t)
    \/ disconnect_upstream(t)
    \/ disconnect_upstream_session_exit(t)
    \/ disconnect_upstream_context(t)
    \/ disconnect_upstream_context_exit(t)
    \/ connect_upstream(t)
    \/ connect_upstream_context_enter(t)
    \/ connect_upstream_session_enter(t)
    \/ connect_upstream_initialize(t)
    \/ connect_upstream_list_tools(t)

NextListTools ==
    \E t \in Tasks :
        \/ list_tools(t)
        \/ _execute_with_reconnect(t)
        \/ _execute_with_reconnect_session_missing(t)
        \/ _execute_with_reconnect_retry(t)
        \/ operation_returns(t)
        \/ operation_raises_McpError(t)
        \/ operation_raises_HTTPError(t)
        \/ operation_raises_other(t)
        \/ _reconnect_upstream(t)
        \/ _connection_lock_acquired(t)
        \/ _reconnect_upstream_locked(t)
        \/ disconnect_upstream(t)
        \/ disconnect_upstream_session_exit(t)
        \/ disconnect_upstream_context(t)
        \/ disconnect_upstream_context_exit(t)
        \/ connect_upstream(t)
        \/ connect_upstream_context_enter(t)
        \/ connect_upstream_session_enter(t)
        \/ connect_upstream_initialize(t)
        \/ connect_upstream_list_tools(t)

SpecListTools == Init /\ [][NextListTools]_vars

\* the event loop runs every task that can go on, and everything awaited
\* returns or raises
SpecFair ==
    Init /\ [][NextListTools]_vars /\ \A t \in Tasks : WF_vars(Dispatch(t))

\* the same handlers with a single request in flight: nobody waits for the
\* lock
NextSingle ==
    \E t \in {1} :
        \/ list_tools(t)
        \/ call_tool(t)
        \/ _execute_with_reconnect(t)
        \/ _execute_with_reconnect_session_missing(t)
        \/ _execute_with_reconnect_retry(t)
        \/ operation_returns(t)
        \/ operation_raises_McpError(t)
        \/ operation_raises_HTTPError(t)
        \/ operation_raises_other(t)
        \/ _reconnect_upstream(t)
        \/ _reconnect_upstream_locked(t)
        \/ disconnect_upstream(t)
        \/ disconnect_upstream_session_exit(t)
        \/ disconnect_upstream_context(t)
        \/ disconnect_upstream_context_exit(t)
        \/ connect_upstream(t)
        \/ connect_upstream_context_enter(t)
        \/ connect_upstream_session_enter(t)
        \/ connect_upstream_initialize(t)
        \/ connect_upstream_list_tools(t)
        \/ _summarize_output(t)
        \/ _summarize_output_progress_start(t)
        \/ _summarize_output_create(t)
        \/ _summarize_output_chunk(t)
        \/ _summarize_output_progress(t)
        \/ _summarize_output_stream_raises(t)
        \/ _summarize_output_stream_ends(t)
        \/ _summarize_output_progress_final(t)

SpecSingle == InitSingle /\ [][NextSingle]_vars


(***************************************************************************)
(* Properties of the dispatcher and of the connection.                     *)
(***************************************************************************)
Done(t) == pc[t] = "done"

\* C1: in one dispatcher call the upstream operation is invoked at most
\* 2 times, whatever the operation answers and however calls interleave.
C1_AtMostTwoInvocations ==
    \A t \in Tasks : hist[t].opCount <= 2

\* a call that used both attempts and has ended
C1_Witness ==
    \E t \in Tasks : Done(t) /\ hist[t].opCount = 2

\* C2 as stated: one dispatcher call performs at most 1 reconnect cycle
\* (disconnect followed by connect), whether a session is stored at its
\* start or not.
C2_AtMostOneCyclePerCall ==
    \A t \in Tasks : hist[t].completed <= 1

\* C2 amended: a call that starts with a session stored begins at most 1
\* reconnect cycle; any call begins at most 1 non-forced cycle (for the
\* missing session) and at most 1 forced cycle (after a dead-session
\* failure), 2 cycles at most.
C2_CyclesPerCall ==
    \A t \in Tasks :
        /\ hist[t].startPresent => hist[t].begun <= 1
        /\ hist[t].forced <= 1
        /\ hist[t].begun - hist[t].forced <= 1
        /\ hist[t].completed <= hist[t].begun

\* a call that found no session, reconnected, failed on the new session
\* and reconnected again
C2_Witness ==
    \E t \in Tasks :
        /\ ~hist[t].startPresent
        /\ hist[t].completed = 2
        /\ hist[t].forced = 1

\* two calls made their first attempt on the same session at the same time
\* and both saw it dead
SameDeadSession(t1, t2) ==
    /\ t1 # t2
    /\ hist[t1].failedOn # 0
    /\ hist[t1].failedOn = hist[t2].failedOn
    /\ (t1 \in hist[t2].peers \/ t2 \in hist[t1].peers)

\* C3: concurrent calls that each see the same session dead on their first
\* attempt cause at most one reconnect cycle in total.
C3_OneCycleForAllCallers ==
    \A t1, t2 \in Tasks :
        SameDeadSession(t1, t2) =>
            hist[t1].completed + hist[t2].completed <= 1

\* the connection handles made so far
Handles == 1..(nextId - 1)

\* C4: at most one session is not torn down, it is the stored one, and
\* every older session handle and transport context has been torn down
\* before a new one exists.
C4_OneSessionOldTornDown ==
    /\ Cardinality(created \ closed) <= 1
    /\ \A h \in created \ closed : h = upstream_session
    /\ \A h \in Handles \ ctxClosed : h = upstream_context
    /\ \A h \in created : h < upstream_session => h \in closed /\ h \in ctxClosed

\* a reconnect cycle has replaced a session that was torn down
C4_Witness ==
    /\ upstream_session >= 2
    /\ upstream_session \in handshaken
    /\ (upstream_session - 1) \in closed

InCycle(t) ==
    pc[t] \in {"disconnect", "session_exit", "disconnect_context",
               "context_exit", "connect", "context_enter", "session_enter",
               "initialize", "discover"}

\* C5: at most one task is inside a reconnect cycle, it holds the lock,
\* and the stored session handle and context change only under the lock.
C5_CyclesNeverOverlap ==
    /\ [](/\ Cardinality({t \in Tasks : InCycle(t)}) <= 1
          /\ \A t \in Tasks : InCycle(t) => lock = t)
    /\ [][(upstream_session' # upstream_session
             \/ upstream_context' # upstream_context)
          => \E t \in Tasks : lock = t /\ InCycle(t)]_vars

\* one task is inside a forced cycle while another waits to force its own
C5_Witness ==
    \E t1, t2 \in Tasks :
        /\ InCycle(t1) /\ loc[t1].force
        /\ pc[t2] = "wait_lock" /\ loc[t2].force

\* both attempts of the call raised a connection-closed McpError
ClosedTwice(t) ==
    /\ Done(t)
    /\ hist[t].startPresent
    /\ Len(hist[t].outcomes) = 2
    /\ hist[t].outcomes[1][2] = "closed"
    /\ hist[t].outcomes[2][2] = "closed"

\* C10 as stated: connection-closed on both attempts gives the caller the
\* ExhaustedRetries error, after exactly 1 reconnect cycle.
C10_ExhaustedAfterOneCycle ==
    \A t \in Tasks :
        ClosedTwice(t) =>
            /\ hist[t].result = Raised(ExhaustedRetriesError)
            /\ hist[t].completed = 1

\* C10 amended: connection-closed on both attempts gives the caller the
\* McpError of the second attempt, after exactly 1 reconnect cycle.
C10_SecondErrorAfterOneCycle ==
    \A t \in Tasks :
        ClosedTwice(t) =>
            /\ hist[t].result.kind = "raise"
            /\ hist[t].result.value \in McpErrors
            /\ _should_reconnect(hist[t].result.value)
            /\ hist[t].begun = 1
            /\ hist[t].completed = 1

C10_Witness ==
    \E t \in Tasks : ClosedTwice(t)


(***************************************************************************)
(* Properties of call_tool's result and of the summarization.              *)
(***************************************************************************)
\* the concatenated text of the upstream result a task holds
TextOf(t) == OutputStr(loc[t].content)

\* C6: a result whose concatenated text is estimated at no more than
\* rule.max_tokens comes back as that text, unchanged, with no backend
\* call and no progress event.
C6_WithinBudgetUnchanged ==
    \A t \in Tasks :
        (hist[t].sumInvoked
            /\ EstimateTokens(TextOf(t)) <= MaxTokensOf(loc[t].name)) =>
            /\ Done(t)
            /\ hist[t].result = Returned(<<TextContent(TextOf(t))>>)
            /\ hist[t].backendCalls = 0
            /\ hist[t].events = <<>>

\* a text estimated at exactly max_tokens went through _summarize_output
C6_Witness ==
    \E t \in Tasks :
        /\ hist[t].sumInvoked
        /\ Done(t)
        /\ TextOf(t) # <<>>
        /\ EstimateTokens(TextOf(t)) = MaxTokensOf(loc[t].name)

\* the tool has no rule, or a rule with enabled = false
NoEnabledRule(name) ==
    \/ name \notin DOMAIN tool_rules
    \/ ("enabled" \in DOMAIN tool_rules[name] /\ ~tool_rules[name].enabled)

SummarizePcs ==
    {"summarize", "progress_start", "create", "stream", "progress",
     "progress_final"}

\* C7: for a tool with no rule or a disabled rule, call_tool returns the
\* content list of the upstream result as it is, whatever its size, and
\* neither _summarize_output nor the backend is called.
C7_PassThroughWhenDisabled ==
    \A t \in Tasks :
        (loc[t].handler = "call" /\ NoEnabledRule(loc[t].name)) =>
            /\ pc[t] \notin SummarizePcs
            /\ ~hist[t].sumInvoked
            /\ hist[t].backendCalls = 0
            /\ (Done(t) /\ hist[t].result.kind = "return"
                  => hist[t].result.value = loc[t].content)

\* a result far over every limit came back as it was, for a tool with no
\* rule, with a backend configured
C7_Witness ==
    \E t \in Tasks :
        /\ Done(t)
        /\ llm_client
        /\ loc[t].name = "plain"
        /\ hist[t].result = Returned(<<TextContent(Huge)>>)

\* the text handed to the backend: clipped above the input ceiling
PreSummarization(t) ==
    IF EstimateTokens(TextOf(t)) > MaxInputTokens
    THEN Clip(TextOf(t)) ELSE TextOf(t)

\* C8: when the backend raises, at the opening of the stream or at a
\* chunk, the pre-summarization (possibly clipped) text is returned and
\* the tool call does not fail.
C8_BackendFailureFallsBack ==
    \A t \in Tasks :
        hist[t].backendFailed =>
            /\ Done(t)
            /\ hist[t].result = Returned(<<TextContent(PreSummarization(t))>>)

\* the stream raised after a chunk, on a clipped text
C8_Witness ==
    \E t \in Tasks :
        /\ hist[t].backendFailed
        /\ hist[t].streamed >= 1
        /\ EstimateTokens(TextOf(t)) > MaxInputTokens
        /\ Done(t)

\* C9: _summarize_output always returns a string: no exception of its
\* steps, the clipping included, fails the tool call.
C9_SummarizeNeverFails ==
    \A t \in Tasks :
        (hist[t].sumInvoked /\ Done(t)) => hist[t].result.kind = "return"


(***************************************************************************)
(* Claims about the retry and the reconnect's edges.                       *)
(***************************************************************************)
\* the first invocation of t's call failed on a dead session
FirstAttemptDead(t) ==
    /\ Len(hist[t].outcomes) >= 1
    /\ hist[t].outcomes[1][2] \in {"closed", "http"}

\* C11: when the first attempt fails with a dead-session signal, the
\* dispatcher forces exactly one reconnect; a second invocation, if made, is
\* on a session handle created after the failure, never on the handle that
\* failed, and when it succeeds the caller receives its result.
C11_RetryOnNewSession ==
    \A t \in Tasks :
        FirstAttemptDead(t) =>
            /\ hist[t].forced <= 1
            /\ hist[t].opCount = 2 =>
                  /\ hist[t].forced = 1
                  /\ loc[t].session # hist[t].outcomes[1][1]
                  /\ loc[t].session > hist[t].outcomes[1][1]
                  /\ loc[t].session \in created
                  /\ hist[t].outcomes[1][1] \in closed
            /\ (Len(hist[t].outcomes) = 2 /\ hist[t].outcomes[2][2] = "ok") =>
                  /\ hist[t].result.kind # "raise"
                  /\ loc[t].handler = "list" =>
                        Done(t) /\ hist[t].result = Returned(ToolList)
                  /\ loc[t].handler = "call" =>
                        /\ loc[t].content \in Results
                        /\ pc[t] \in SummarizePcs \cup {"done"}
                        /\ (Done(t) /\ ~hist[t].sumInvoked) =>
                              hist[t].result = Returned(loc[t].content)

\* a call whose first attempt died has returned the second attempt's result
C11_Witness ==
    \E t \in Tasks :
        /\ Done(t)
        /\ FirstAttemptDead(t)
        /\ Len(hist[t].outcomes) = 2
        /\ hist[t].outcomes[2][2] = "ok"
        /\ hist[t].outcomes[2][1] # hist[t].outcomes[1][1]
        /\ hist[t].result.kind = "return"

\* the protocol errors that signal a dead session: the connection-closed
\* code, or a message holding "session terminated" or "connection closed"
\* in any case
DeadSessionSignal(exc) ==
    \/ exc.code = CONNECTION_CLOSED
    \/ exc.message \in {MsgSessionTerminated, MsgConnectionClosed}

\* t's call has been sent into a forced reconnect
ForcedReconnectTriggered(t) ==
    \/ hist[t].forced >= 1
    \/ pc[t] \in {"reconnect", "wait_lock", "locked"} /\ loc[t].force

\* C12: a protocol error of the first attempt triggers a forced reconnect
\* and a retry exactly when it is a dead-session signal; any other protocol
\* error, and any error that is neither protocol nor transport, propagates
\* as it is with no reconnect and no second invocation.
C12_ReconnectIffDeadSignal ==
    \A t \in Tasks :
        Len(hist[t].outcomes) >= 1 =>
            LET exc == hist[t].outcomes[1][3]
                propagated == /\ Done(t)
                              /\ hist[t].result = Raised(exc)
                              /\ hist[t].opCount = 1
                              /\ hist[t].forced = 0
                              /\ ~ForcedReconnectTriggered(t)
            IN  /\ exc.type = "McpError" =>
                      /\ DeadSessionSignal(exc) <=> ForcedReconnectTriggered(t)
                      /\ ~DeadSessionSignal(exc) => propagated
                      /\ (DeadSessionSignal(exc) /\ Done(t)) =>
                            \/ hist[t].opCount = 2
                            \/ hist[t].begun > hist[t].completed
                /\ exc.type \notin {"none", "McpError", "HTTPError"} =>
                      propagated

\* a protocol error with an ordinary code and the message "Session
\* Terminated" was followed by a second invocation
C12_Witness ==
    \E t \in Tasks :
        /\ Len(hist[t].outcomes) = 2
        /\ hist[t].outcomes[1][3] = McpError(INVALID_PARAMS, MsgSessionTerminated)
        /\ hist[t].forced = 1
        /\ hist[t].opCount = 2


(***************************************************************************)
(* Claims about the stream and its progress events.                        *)
(***************************************************************************)
\* fractions <<num, den>> compared
Less(a, b) == a[1] * b[2] < b[1] * a[2]
AtMost(a, b) == a[1] * b[2] <= b[1] * a[2]
Cap == <<9, 10>>

\* t's summarization streamed to the end with a progress sink
StreamCompleted(t) ==
    /\ Done(t)
    /\ hist[t].sumInvoked
    /\ loc[t].ctx
    /\ hist[t].backendCalls = 1
    /\ ~hist[t].backendFailed
    /\ hist[t].result.kind = "return"

\* the events sent: 0.0 first, 1.0 last and only last, the others at most 0.9
ProgressShape(e) ==
    /\ Len(e) >= 2
    /\ e[1] = <<0, 1>>
    /\ e[Len(e)] = <<1, 1>>
    /\ \A i \in 2..(Len(e) - 1) : AtMost(e[i], Cap)

\* C13 as stated: the progress values sent by a summarization that streams
\* to the end with a progress sink are strictly increasing: 0.0, then values
\* each strictly greater than the one before and at most 0.9, then one 1.0.
C13_ProgressStrictlyIncreasing ==
    \A t \in Tasks :
        StreamCompleted(t) =>
            /\ ProgressShape(hist[t].emitted)
            /\ \A i \in 1..(Len(hist[t].emitted) - 1) :
                  Less(hist[t].emitted[i], hist[t].emitted[i + 1])

\* C13, amended: the progress values sent are 0.0, then values that never
\* decrease, are at most 0.9 and strictly increase until one reaches 0.9,
\* then one 1.0.
C13_ProgressNeverDecreases ==
    \A t \in Tasks :
        StreamCompleted(t) =>
            /\ ProgressShape(hist[t].emitted)
            /\ \A i \in 1..(Len(hist[t].emitted) - 1) :
                  /\ AtMost(hist[t].emitted[i], hist[t].emitted[i + 1])
                  /\ Less(hist[t].emitted[i], Cap) =>
                        Less(hist[t].emitted[i], hist[t].emitted[i + 1])

\* a stream that ended after two progress values below the cap
C13_Witness ==
    \E t \in Tasks :
        /\ StreamCompleted(t)
        /\ Len(hist[t].emitted) = 4
        /\ Less(hist[t].emitted[2], hist[t].emitted[3])
        /\ Less(hist[t].emitted[3], Cap)


(***************************************************************************)
(* Claims about the failures of disconnect and connect.                    *)
(***************************************************************************)
TeardownError == OtherError("TeardownError")
ConnectError == OtherError("ConnectError")

\* C14: disconnect never fails: an error raised while tearing down the
\* session or its context is swallowed, the stored handle and context are
\* cleared and the connect of the reconnect still runs, so that no call
\* ends with the teardown's error and with the old handle still stored.
C14_DisconnectNeverFails ==
    \A t \in Tasks :
        Done(t) => hist[t].result # Raised(TeardownError)

\* t's call has ended in a reconnect cycle whose connect did not produce
\* a session
NoSessionEstablished(t) ==
    /\ Done(t)
    /\ hist[t].begun > hist[t].completed
    /\ hist[t].result # Raised(TeardownError)

\* C15: a dispatcher call whose reconnect does not produce a session fails
\* with the generic error "failed even after reconnect".
C15_ExhaustedWhenNoSession ==
    \A t \in Tasks :
        NoSessionEstablished(t) =>
            hist[t].result = Raised(ExhaustedRetriesError)


(***************************************************************************)
(* Claims about termination.                                               *)
(***************************************************************************)
DispatcherPcs ==
    {"loop", "session_missing", "retry", "op", "reconnect", "wait_lock",
     "locked", "disconnect", "session_exit", "disconnect_context",
     "context_exit", "connect", "context_enter", "session_enter",
     "initialize", "discover"}

InDispatcher(t) == pc[t] \in DispatcherPcs

\* C16: under fair scheduling, with every upstream connect, disconnect and
\* operation returning or raising, every dispatcher call eventually returns
\* or raises: nobody waits for the lock for ever, nobody loops for ever, and
\* the lock is held only inside _reconnect_upstream.
C16_EveryCallEnds ==
    /\ \A t \in Tasks : InDispatcher(t) ~> Done(t)
    /\ [](lock # 0 => (pc[lock] = "locked" \/ InCycle(lock)))

\* a call that found no session stored, after another call's reconnect
\* ended with the connect's error, has reconnected and returned
C16_Witness ==
    \E t, u \in Tasks :
        /\ Done(u) /\ hist[u].result = Raised(ConnectError)
        /\ Done(t) /\ hist[t].result.kind = "return"
        /\ ~hist[t].startPresent
        /\ hist[t].completed = 1


(***************************************************************************)
(* Claims about a call that finds no session stored.                       *)
(***************************************************************************)
\* t holds the lock in a non-forced _reconnect_upstream with a session stored
NonForcedSessionPresent(t) ==
    /\ pc[t] = "locked"
    /\ ~loc[t].force
    /\ upstream_session # 0

\* C17: a reconnect with force = false that finds a session stored once it
\* holds the lock is a no-op: no disconnect, no connect, the session handle
\* and the context unchanged, the lock released, back in the dispatcher.
C17_NonForcedNoOp ==
    [][\A t \in Tasks :
          (NonForcedSessionPresent(t) /\ pc'[t] # "locked") =>
              /\ lock = t /\ lock' = 0
              /\ UNCHANGED conn
              /\ pc'[t] = loc[t].ret
              /\ hist'[t].begun = hist[t].begun
              /\ hist'[t].completed = hist[t].completed]_vars

\* a call is back from a reconnect for "session missing" that did nothing
C17_Witness ==
    \E t \in Tasks :
        /\ pc[t] = "session_missing"
        /\ hist[t].begun = 0
        /\ upstream_session # 0
        /\ lock = 0

\* C18: every upstream call, list_tools and call_tool alike, made while no
\* session is stored attempts a non-forced reconnect and then runs the
\* operation, and never fails at once with "Not connected to upstream".
C18_SessionMissingReconnects ==
    \A t \in Tasks :
        (Done(t) /\ ~hist[t].startPresent) =>
            /\ hist[t].result # Raised(NotConnectedError)
            /\ hist[t].begun >= 1 \/ hist[t].opCount >= 1

\* no task is inside _reconnect_upstream
NoReconnectRunning == \A t \in Tasks : pc[t] # "locked" /\ ~InCycle(t)

\* C19: after a connect that failed at the transport or at the handshake no
\* session handle is left stored: outside a reconnect cycle a stored handle
\* is one of a session whose handshake completed.
C19_StoredSessionHandshaken ==
    (NoReconnectRunning /\ upstream_session # 0) =>
        upstream_session \in handshaken


(***************************************************************************)
(* Claims about the text a completed stream returns.                       *)
(***************************************************************************)
\* t's summarization streamed to the end, with or without a progress sink
StreamEnded(t) ==
    /\ Done(t)
    /\ hist[t].sumInvoked
    /\ hist[t].backendCalls = 1
    /\ ~hist[t].backendFailed
    /\ hist[t].result.kind = "return"

\* C20: a stream that completes returns the concatenation of its fragments
\* trimmed of leading and trailing whitespace; when it yields no text (no
\* fragment, or whitespace alone) the pre-summarization text is returned
\* instead of an empty string.
C20_TrimmedOrFallback ==
    \A t \in Tasks :
        StreamEnded(t) =>
            LET trimmed == Strip(JoinAll(loc[t].summary_chunks))
            IN  hist[t].result =
                    Returned(<<TextContent(IF trimmed # <<>> THEN trimmed
                                           ELSE PreSummarization(t))>>)

=============================================================================
